---- MODULE Spec2Model ----
(***************************************************************************)
(* MySnooze: the extended sleep function for MySensors nodes on AVR.       *)
(*                                                                         *)
(* snooze() (readiness guard, smart-sleep notification) calls mySleep(),   *)
(* which calls myInternalSleep() to split the duration into watchdog naps, *)
(* each nap being one myPowerDown() / _doPowerDown().  An application ISR  *)
(* may write the global wokeUpWhy whenever the I bit of SREG is set.       *)
(*                                                                         *)
(* Three specifications:                                                   *)
(*   Spec      the whole of snooze(), request after request, for the       *)
(*             durations in Requests;                                      *)
(*   SpecLive  Spec with weak fairness of the program's steps;             *)
(*   SpecSched mySleep() alone, called once, for every ms in SchedRequests. *)
(***************************************************************************)
EXTENDS Integers, Sequences, FiniteSets

\* ---------------------------------------------------------------- bounds

\* SpecSched calls mySleep(ms) for every ms = 8000 * n + h + r with n up to
\* MaxLoops, h in HighRests and r up to MaxRest.
MaxLoops == 2
MaxRest == 520

\* The passes of the guard loop that take 1 ms add up to at most this many
\* ms between two long passes.
MaxShortPolls == 2

\* ------------------------------------------------------ program constants

\* unsigned long / uint32_t values are kept as two 16-bit halves <<high,
\* low>>, so that their arithmetic is modulo 2^32.
Word16 == 65536

\* uint8_t -> int8_t conversion wraps at 2^7.
Int8Wrap == 128

\* MySensors: the wake reasons that are not application values.
MY_WAKE_UP_BY_TIMER == -1
MY_SLEEP_NOT_POSSIBLE == -2

\* MySensors MyConfig.h defaults.
MY_SLEEP_TRANSPORT_RECONNECT_TIMEOUT_MS == 10000
MY_SMART_SLEEP_WAIT_DURATION_MS == 500

\* The naps of myInternalSleep, in the order of its statements: the first is
\* the `while` loop, the others are the `if` statements that follow it.
QuantumTable == <<8000, 4000, 2000, 1000, 500, 250, 120, 60, 30, 15>>

NStages == Len(QuantumTable)

\* ------------------------------------------------------------ input sets

\* Values the application ISR writes to wokeUpWhy (a uint8_t, never 0).
FlagValues == {1, 255}

\* Values tick() returns (an int8_t).
TickValues == {0, 7, -1}

\* Durations the application passes to snooze().
Requests == {0, 1, 15, 240, 8000, 9015, 12003, 14003}

\* Durations SpecSched passes to mySleep(), and the value its ISR writes.
HighRests == {0, 1000, 6000, 7000}
SchedRequests ==
    {QuantumTable[1] * n + h + r :
        n \in 0..MaxLoops, h \in HighRests, r \in 0..MaxRest}
SchedFlagValues == {1}

\* Values of timer0_millis when snooze() is called: any time passes between
\* two calls, and the counter wraps.
ClockStarts == {<<0, 0>>, <<Word16 - 1, Word16 - 3>>}

\* Time one pass of the guard loop takes (_process() and two hwMillis()).
ShortPoll == 1
LongPoll == 4000

VARIABLES
    pc,              \* where the main context is: "idle" outside snooze,
                     \* else the line of MySnooze.cpp it executes next
    sleepingMS,      \* snooze: the argument
    smartSleep,      \* snooze: the argument
    sleepingTimeMS,  \* snooze: local
    sleepEnterMS,    \* snooze: local
    sleepDeltaMS,    \* snooze: local
    ms,              \* myInternalSleep: its parameter, counted down
    stage,           \* myInternalSleep: the statement reached, 1..NStages+1
    why,             \* mySleep / myInternalSleep: local
    result,          \* snooze: local, and what the call returned; 0 (which
                     \* snooze never returns) while there is none
    wokeUpWhy,       \* the global wake flag
    iflag,           \* SREG I bit: interrupts enabled
    pending,         \* an interrupt latched while the I bit was clear (0: none)
    wdt,             \* the watchdog while the CPU sleeps: "armed" (wdt_enable)
                     \* or "disabled" (wdt_disable); "restored" otherwise
    napMS,           \* myPowerDown: its parameter ms, the nominal nap
    ADEN,            \* ADCSRA bit ADEN
    ADENsave,        \* static ADENsave
    timer0_millis,   \* the Arduino millisecond counter
    tickDefined,     \* whether the application links a tick()
    transportReady,  \* isTransportReady()
    \* history of the request in progress
    naps,            \* nominal durations of the naps entered, in order; 0
                     \* stands for the nap without deadline
    ticks,           \* number of calls of tick()
    tickRet,         \* what the last call of tick() returned, 0 before
    sinceTick,       \* nominal sleep since the last tick() or the start
    irqs,            \* the values ISRs wrote to the flag while mySleep ran,
                     \* after its first reset of the flag and up to its second
    lateNaps,        \* naps entered while wokeUpWhy was already non-zero
    events,          \* what snooze did on the way to the first nap, in order
    stale,           \* wokeUpWhy when snooze was called
    latched,         \* the value of the latched interrupt whose ISR, run on
                     \* sei(), woke the CPU from its last nap (0: none)
    clock0,          \* timer0_millis when mySleep was entered
    adcOff,          \* number of calls of _pre_doPowerDown
    adcOn,           \* number of calls of _post_doPowerDown
    ADEN0            \* ADCSRA bit ADEN when snooze was called

vars == <<pc, sleepingMS, smartSleep, sleepingTimeMS, sleepEnterMS,
          sleepDeltaMS, ms, stage, why, result, wokeUpWhy, iflag, pending,
          wdt, napMS, ADEN, ADENsave, timer0_millis, tickDefined,
          transportReady, naps, ticks, tickRet, sinceTick, irqs, lateNaps,
          events, stale, latched, clock0, adcOff, adcOn, ADEN0>>

snoozeVars == <<sleepingMS, smartSleep, sleepingTimeMS, sleepEnterMS,
                sleepDeltaMS>>
schedVars == <<ms, stage, why, wdt, napMS>>
adcVars == <<ADEN, ADENsave>>
histVars == <<naps, ticks, tickRet, sinceTick, irqs, lateNaps, events>>
auditVars == <<stale, latched, clock0, adcOff, adcOn, ADEN0>>

\* ------------------------------------------------------------- operators

\* (int8_t)v for a uint8_t v.
ToInt8(v) == IF v >= Int8Wrap THEN v - 2 * Int8Wrap ELSE v

\* The uint32_t of a number below 2^31, and back.
U32(n) == <<n \div Word16, n % Word16>>
Val(a) == a[1] * Word16 + a[2]

\* a + b, a - b and a < b in uint32_t.
Add32(a, b) ==
    <<(a[1] + b[1] + (a[2] + b[2]) \div Word16) % Word16,
      (a[2] + b[2]) % Word16>>
Sub32(a, b) ==
    <<(a[1] - b[1] - (IF a[2] < b[2] THEN 1 ELSE 0) + Word16) % Word16,
      (a[2] - b[2] + Word16) % Word16>>
Less32(a, b) == a[1] < b[1] \/ (a[1] = b[1] /\ a[2] < b[2])

RECURSIVE SumSeq(_)
SumSeq(s) == IF s = <<>> THEN 0 ELSE Head(s) + SumSeq(Tail(s))

\* The statement of myInternalSleep that sleeps next when control is at
\* statement s with m left: the `while` (s = 1) and each `if` are skipped
\* when m is below their nap; NStages + 1 is the final return.
RECURSIVE NextStage(_, _)
NextStage(m, s) ==
    IF s > NStages THEN s
    ELSE IF m >= QuantumTable[s] THEN s
    ELSE NextStage(m, s + 1)

\* StageAfter with the loop written as one more `if`.
MutStageAfter(s) == s + 1

\* The statement control reaches after a nap of statement s: the `while`
\* loops, an `if` falls through to the next one.
StageAfter(s) == IF s = 1 THEN 1 ELSE s + 1

\* The scheduler is running: between mySleep's reset of the flag and its
\* second reset.
InSched == pc \in {"L170", "L233", "L118", "L140", "L172", "L234", "L237"}

\* ------------------------------------------------------------------ Init

NoHistory ==
    /\ naps = <<>>
    /\ ticks = 0
    /\ tickRet = 0
    /\ sinceTick = 0
    /\ irqs = {}
    /\ lateNaps = 0
    /\ events = <<>>
    /\ stale = 0
    /\ latched = 0
    /\ clock0 = U32(0)
    /\ adcOff = 0
    /\ adcOn = 0

Init ==
    /\ pc = "idle"
    /\ sleepingMS = 0
    /\ smartSleep = FALSE
    /\ sleepingTimeMS = 0
    /\ sleepEnterMS = U32(0)
    /\ sleepDeltaMS = U32(0)
    /\ ms = 0
    /\ stage = 1
    /\ why = 0
    /\ result = 0
    /\ wokeUpWhy = 0
    /\ iflag = TRUE
    /\ pending = 0
    /\ wdt = "restored"
    /\ napMS = 0
    /\ ADEN \in BOOLEAN
    /\ ADENsave = FALSE
    /\ timer0_millis \in ClockStarts
    /\ tickDefined \in BOOLEAN
    /\ transportReady \in BOOLEAN
    /\ NoHistory
    /\ ADEN0 = FALSE

\* -------------------------------------------------------------- snooze()

\* The application calls snooze(m, s).
Call(m, s) ==
    /\ pc = "idle"
    /\ pc' = "L262"
    /\ sleepingMS' = m
    /\ smartSleep' = s
    /\ sleepingTimeMS' = m
    /\ stale' = wokeUpWhy
    /\ ADEN0' = ADEN
    /\ UNCHANGED <<latched, clock0, adcOff, adcOn>>
    /\ UNCHANGED <<sleepEnterMS, sleepDeltaMS, schedVars, adcVars, result,
                   wokeUpWhy, iflag, pending, timer0_millis, tickDefined,
                   transportReady, histVars>>

\* The transport gains or loses its link, outside snooze or while the guard
\* polls it.
TransportChange ==
    /\ pc \in {"idle", "L262", "L266"}
    /\ transportReady' = ~transportReady
    /\ UNCHANGED <<pc, snoozeVars, schedVars, adcVars, result, wokeUpWhy,
                   iflag, pending, timer0_millis, tickDefined, histVars>>
    /\ UNCHANGED auditVars

\* if (!isTransportReady()) { sleepEnterMS = hwMillis(); sleepDeltaMS = 0;
GuardCheck ==
    /\ pc = "L262"
    /\ IF transportReady
       THEN /\ pc' = "L284"
            /\ UNCHANGED <<sleepEnterMS, sleepDeltaMS, events>>
       ELSE /\ pc' = "L266"
            /\ sleepEnterMS' = timer0_millis
            /\ sleepDeltaMS' = U32(0)
            /\ events' = Append(events, "guard")
    /\ UNCHANGED <<sleepingMS, smartSleep, sleepingTimeMS, schedVars,
                   adcVars, result, wokeUpWhy, iflag, pending, timer0_millis,
                   tickDefined, transportReady, naps, ticks, tickRet,
                   sinceTick, irqs, lateNaps>>
    /\ UNCHANGED auditVars

\* The condition of the guard's while loop.
GuardWaits ==
    /\ ~transportReady
    /\ Less32(sleepDeltaMS, U32(sleepingTimeMS))
    /\ Less32(sleepDeltaMS, U32(MY_SLEEP_TRANSPORT_RECONNECT_TIMEOUT_MS))

\* One pass of the loop: _process(); sleepDeltaMS = hwMillis() - sleepEnterMS.
\* The pass takes d ms; timer0_millis counts them in the timer 0 overflow
\* ISR, so only while the I bit is set.
GuardPoll(d) ==
    /\ pc = "L266"
    /\ GuardWaits
    /\ d = ShortPoll => sleepDeltaMS[2] % LongPoll < MaxShortPolls
    /\ timer0_millis' = Add32(timer0_millis, U32(IF iflag THEN d ELSE 0))
    /\ sleepDeltaMS' = Sub32(timer0_millis', sleepEnterMS)
    /\ UNCHANGED <<pc, sleepingMS, smartSleep, sleepingTimeMS, sleepEnterMS,
                   schedVars, adcVars, result, wokeUpWhy, iflag, pending,
                   tickDefined, transportReady, histVars>>
    /\ UNCHANGED auditVars

\* GuardSleeps with <= for <.
MutGuardSleeps == ~Less32(U32(sleepingTimeMS), sleepDeltaMS)

\* The guard found sleeping time left after the loop.
GuardSleeps == Less32(sleepDeltaMS, U32(sleepingTimeMS))

\* The loop has ended: sleep the remainder, or return MY_SLEEP_NOT_POSSIBLE.
GuardDone ==
    /\ pc = "L266"
    /\ ~GuardWaits
    /\ IF GuardSleeps
       THEN /\ sleepingTimeMS' = Val(Sub32(U32(sleepingTimeMS), sleepDeltaMS))
            /\ pc' = "L284"
            /\ UNCHANGED result
       ELSE /\ result' = MY_SLEEP_NOT_POSSIBLE
            /\ pc' = "L280"
            /\ UNCHANGED sleepingTimeMS
    /\ UNCHANGED <<sleepingMS, smartSleep, sleepEnterMS, sleepDeltaMS,
                   schedVars, adcVars, wokeUpWhy, iflag, pending,
                   timer0_millis, tickDefined, transportReady, histVars>>
    /\ UNCHANGED auditVars

\* Notify without the test of smartSleep.
MutNotify ==
    /\ pc = "L284"
    /\ iflag
    /\ pc' = "L291"
    /\ events' = events \o <<"heartbeat", "wait">>
    /\ timer0_millis' = Add32(timer0_millis,
                              U32(MY_SMART_SLEEP_WAIT_DURATION_MS))
    /\ UNCHANGED <<snoozeVars, schedVars, adcVars, result, wokeUpWhy, iflag,
                   pending, tickDefined, transportReady, naps, ticks,
                   tickRet, sinceTick, irqs, lateNaps>>
    /\ UNCHANGED auditVars

\* if (smartSleep) { sendHeartbeat(); wait(MY_SMART_SLEEP_WAIT_DURATION_MS); }
\* wait() loops on hwMillis(), which stands still while the I bit is clear.
Notify ==
    /\ pc = "L284"
    /\ smartSleep => iflag
    /\ pc' = "L291"
    /\ events' = IF smartSleep
                 THEN events \o <<"heartbeat", "wait">>
                 ELSE events
    /\ timer0_millis' = IF smartSleep
                        THEN Add32(timer0_millis,
                                   U32(MY_SMART_SLEEP_WAIT_DURATION_MS))
                        ELSE timer0_millis
    /\ UNCHANGED <<snoozeVars, schedVars, adcVars, result, wokeUpWhy, iflag,
                   pending, tickDefined, transportReady, naps, ticks,
                   tickRet, sinceTick, irqs, lateNaps>>
    /\ UNCHANGED auditVars

\* transportDisable(); setIndication(INDICATION_SLEEP);
PowerDownTransport ==
    /\ pc = "L291"
    /\ pc' = "L224"
    /\ events' = Append(events, "disable")
    /\ UNCHANGED <<snoozeVars, schedVars, adcVars, result, wokeUpWhy, iflag,
                   pending, timer0_millis, tickDefined, transportReady, naps,
                   ticks, tickRet, sinceTick, irqs, lateNaps>>
    /\ UNCHANGED auditVars

\* return MY_SLEEP_NOT_POSSIBLE; or setIndication(INDICATION_WAKEUP); return
\* result;  The locals are gone and the application runs on: the history of
\* the request ends here, and by the next call the clock has moved on.
Return ==
    /\ pc \in {"L280", "L298"}
    /\ pc' = "idle"
    /\ sleepingMS' = 0
    /\ smartSleep' = FALSE
    /\ sleepingTimeMS' = 0
    /\ sleepEnterMS' = U32(0)
    /\ sleepDeltaMS' = U32(0)
    /\ ms' = 0
    /\ stage' = 1
    /\ why' = 0
    /\ napMS' = 0
    /\ result' = 0
    /\ timer0_millis' \in ClockStarts
    /\ naps' = <<>>
    /\ ticks' = 0
    /\ tickRet' = 0
    /\ sinceTick' = 0
    /\ irqs' = {}
    /\ lateNaps' = 0
    /\ events' = <<>>
    /\ stale' = 0
    /\ latched' = 0
    /\ clock0' = U32(0)
    /\ adcOff' = 0
    /\ adcOn' = 0
    /\ ADEN0' = FALSE
    /\ UNCHANGED <<wdt, adcVars, wokeUpWhy, iflag, pending, tickDefined,
                   transportReady>>

\* ------------------------------------------------------------- mySleep()

\* EnterMySleep without its reset of the flag.
MutEnterMySleep ==
    /\ pc = "L224"
    /\ iflag' = FALSE
    /\ ADENsave' = ADEN
    /\ ADEN' = FALSE
    /\ ms' = sleepingTimeMS
    /\ stage' = 1
    /\ why' = 0
    /\ pc' = IF sleepingTimeMS > 0 THEN "L170" ELSE "L233"
    /\ irqs' = {}
    /\ events' = Append(events, "mySleep")
    /\ clock0' = timer0_millis
    /\ adcOff' = adcOff + 1
    /\ UNCHANGED <<stale, latched, adcOn, ADEN0>>
    /\ UNCHANGED <<snoozeVars, wdt, napMS, result, wokeUpWhy, pending,
                   timer0_millis, tickDefined, transportReady, naps, ticks,
                   tickRet, sinceTick, lateNaps>>

\* cli(); wokeUpWhy = 0; _pre_doPowerDown(); then the branch on ms > 0.
EnterMySleep ==
    /\ pc = "L224"
    /\ iflag' = FALSE
    /\ wokeUpWhy' = 0
    /\ ADENsave' = ADEN
    /\ ADEN' = FALSE
    /\ ms' = sleepingTimeMS
    /\ stage' = 1
    /\ why' = 0
    /\ pc' = IF sleepingTimeMS > 0 THEN "L170" ELSE "L233"
    /\ irqs' = {}
    /\ events' = Append(events, "mySleep")
    /\ clock0' = timer0_millis
    /\ adcOff' = adcOff + 1
    /\ UNCHANGED <<stale, latched, adcOn, ADEN0>>
    /\ UNCHANGED <<snoozeVars, wdt, napMS, result, pending, timer0_millis,
                   tickDefined, transportReady, naps, ticks, tickRet,
                   sinceTick, lateNaps>>

\* ExitMySleep without its reset of the flag.
MutExitMySleep ==
    /\ pc = "L237"
    /\ ADEN' = (ADEN \/ ADENsave)
    /\ adcOn' = adcOn + 1
    /\ UNCHANGED <<stale, latched, clock0, adcOff, ADEN0>>
    /\ result' = IF why # 0 THEN why ELSE MY_WAKE_UP_BY_TIMER
    /\ pc' = "L298"
    /\ UNCHANGED <<snoozeVars, schedVars, ADENsave, wokeUpWhy, iflag, pending,
                   timer0_millis, tickDefined, transportReady, histVars>>

\* wokeUpWhy = 0; _post_doPowerDown(); return why ? why : MY_WAKE_UP_BY_TIMER;
\* and snooze's result = mySleep(sleepingTimeMS).
ExitMySleep ==
    /\ pc = "L237"
    /\ wokeUpWhy' = 0
    /\ ADEN' = (ADEN \/ ADENsave)
    /\ adcOn' = adcOn + 1
    /\ UNCHANGED <<stale, latched, clock0, adcOff, ADEN0>>
    /\ result' = IF why # 0 THEN why ELSE MY_WAKE_UP_BY_TIMER
    /\ pc' = "L298"
    /\ UNCHANGED <<snoozeVars, schedVars, ADENsave, iflag, pending,
                   timer0_millis, tickDefined, transportReady, histVars>>

\* ------------------------------------------- _doPowerDown(), myPowerDown()

\* _doPowerDown(wdto) up to sleep_cpu(): the watchdog is armed for the nap
\* (or disabled), then cli(); sleep_enable(); sei(); sleep_cpu(): the CPU is
\* asleep with the I bit set.
DoPowerDown(w, q) ==
    /\ wdt' = w
    /\ napMS' = q
    /\ iflag' = TRUE
    /\ pc' = "L118"

\* mySleep with ms = 0: _doPowerDown(WDTO_SLEEP_FOREVER).
NapForever ==
    /\ pc = "L233"
    /\ DoPowerDown("disabled", 0)
    /\ naps' = Append(naps, 0)
    /\ UNCHANGED <<snoozeVars, ms, stage, why, adcVars, result, wokeUpWhy,
                   pending, timer0_millis, tickDefined, transportReady,
                   ticks, tickRet, sinceTick, irqs, lateNaps, events>>
    /\ UNCHANGED auditVars

\* Nap with _pre_doPowerDown() called for every nap.
MutNap ==
    /\ pc = "L170"
    /\ NextStage(ms, stage) <= NStages
    /\ stage' = NextStage(ms, stage)
    /\ DoPowerDown("armed", QuantumTable[stage'])
    /\ naps' = Append(naps, QuantumTable[stage'])
    /\ sinceTick' = sinceTick + QuantumTable[stage']
    /\ lateNaps' = IF wokeUpWhy # 0 THEN lateNaps + 1 ELSE lateNaps
    /\ ADENsave' = ADEN
    /\ ADEN' = FALSE
    /\ adcOff' = adcOff + 1
    /\ UNCHANGED <<stale, latched, clock0, adcOn, ADEN0>>
    /\ UNCHANGED <<snoozeVars, ms, why, result, wokeUpWhy, pending,
                   timer0_millis, tickDefined, transportReady, ticks, tickRet,
                   irqs, events>>

\* myInternalSleep: the next statement whose nap fits sleeps it.
Nap ==
    /\ pc = "L170"
    /\ NextStage(ms, stage) <= NStages
    /\ stage' = NextStage(ms, stage)
    /\ DoPowerDown("armed", QuantumTable[stage'])
    /\ naps' = Append(naps, QuantumTable[stage'])
    /\ sinceTick' = sinceTick + QuantumTable[stage']
    /\ lateNaps' = IF wokeUpWhy # 0 THEN lateNaps + 1 ELSE lateNaps
    /\ UNCHANGED <<snoozeVars, ms, why, adcVars, result, wokeUpWhy, pending,
                   timer0_millis, tickDefined, transportReady, ticks, tickRet,
                   irqs, events>>
    /\ UNCHANGED auditVars

\* Where _doPowerDown returns to: myPowerDown (a nap with a deadline) or
\* mySleep (the nap without).
AfterWake == IF wdt = "armed" THEN "L140" ELSE "L234"

\* The watchdog deadline of the nap expires and wakes the CPU; the rest of
\* _doPowerDown restores the watchdog.
WdtExpire ==
    /\ pc = "L118"
    /\ wdt = "armed"
    /\ pending = 0
    /\ pc' = AfterWake
    /\ wdt' = "restored"
    /\ UNCHANGED <<snoozeVars, ms, stage, why, napMS, adcVars, result,
                   wokeUpWhy, iflag, pending, timer0_millis, tickDefined,
                   transportReady, histVars>>
    /\ UNCHANGED auditVars

\* An external interrupt of the application: with the I bit set its ISR runs
\* and writes wokeUpWhy = v, waking the CPU if it sleeps; with the I bit
\* clear the interrupt stays latched.
Interrupt(v) ==
    /\ pc # "idle" \/ wokeUpWhy # v
    /\ IF iflag
       THEN /\ wokeUpWhy' = v
            /\ irqs' = IF InSched THEN irqs \cup {v} ELSE irqs
            /\ pc' = IF pc = "L118" THEN AfterWake ELSE pc
            /\ wdt' = IF pc = "L118" THEN "restored" ELSE wdt
            /\ UNCHANGED pending
       ELSE /\ pending' = v
            /\ UNCHANGED <<wokeUpWhy, irqs, pc, wdt>>
    /\ UNCHANGED <<snoozeVars, ms, stage, why, napMS, adcVars, result, iflag,
                   timer0_millis, tickDefined, transportReady, naps, ticks,
                   tickRet, sinceTick, lateNaps, events>>
    /\ UNCHANGED auditVars

\* PendingISR with an instruction between sei() and sleep_cpu(): the ISR of
\* the latched interrupt runs before the CPU sleeps, and wakes nothing.
MutPendingISR ==
    /\ iflag
    /\ pending # 0
    /\ wokeUpWhy' = pending
    /\ irqs' = IF InSched THEN irqs \cup {pending} ELSE irqs
    /\ pending' = 0
    /\ UNCHANGED <<pc, wdt, auditVars>>
    /\ UNCHANGED <<snoozeVars, ms, stage, why, napMS, adcVars, result, iflag,
                   timer0_millis, tickDefined, transportReady, naps, ticks,
                   tickRet, sinceTick, lateNaps, events>>

\* sei() with an interrupt latched: its ISR runs after the next instruction,
\* which is sleep_cpu(), and the CPU wakes at once.
PendingISR ==
    /\ iflag
    /\ pending # 0
    /\ wokeUpWhy' = pending
    /\ irqs' = IF InSched THEN irqs \cup {pending} ELSE irqs
    /\ pending' = 0
    /\ latched' = IF pc = "L118" THEN pending ELSE latched
    /\ UNCHANGED <<stale, clock0, adcOff, adcOn, ADEN0>>
    /\ pc' = IF pc = "L118" THEN AfterWake ELSE pc
    /\ wdt' = IF pc = "L118" THEN "restored" ELSE wdt
    /\ UNCHANGED <<snoozeVars, ms, stage, why, napMS, adcVars, result, iflag,
                   timer0_millis, tickDefined, transportReady, naps, ticks,
                   tickRet, sinceTick, lateNaps, events>>

\* myPowerDown after _doPowerDown: if (wokeUpWhy) return wokeUpWhy;
Interrupted == wokeUpWhy # 0

\* AfterNap with the clock corrected before the flag is tested.
MutAfterNap ==
    /\ pc = "L140"
    /\ timer0_millis' = Add32(timer0_millis, U32(napMS))
    /\ IF Interrupted
       THEN /\ why' = ToInt8(wokeUpWhy)
            /\ pc' = "L237"
            /\ UNCHANGED <<ms, stage>>
       ELSE /\ why' = 0
            /\ IF stage = 1
               THEN /\ pc' = "L172"
                    /\ UNCHANGED <<ms, stage>>
               ELSE /\ pc' = "L170"
                    /\ ms' = ms - napMS
                    /\ stage' = StageAfter(stage)
    /\ UNCHANGED <<snoozeVars, wdt, napMS, adcVars, result, wokeUpWhy, iflag,
                   pending, tickDefined, transportReady, histVars>>
    /\ UNCHANGED auditVars

\* myPowerDown after _doPowerDown, and what myInternalSleep does with its
\* result: return it if non-zero; else the clock has been corrected, and
\* the loop goes on to tick(), an `if` subtracts its nap.
AfterNap ==
    /\ pc = "L140"
    /\ IF Interrupted
       THEN /\ why' = ToInt8(wokeUpWhy)
            /\ pc' = "L237"
            /\ UNCHANGED <<timer0_millis, ms, stage>>
       ELSE /\ timer0_millis' = Add32(timer0_millis, U32(napMS))
            /\ why' = 0
            /\ IF stage = 1
               THEN /\ pc' = "L172"
                    /\ UNCHANGED <<ms, stage>>
               ELSE /\ pc' = "L170"
                    /\ ms' = ms - napMS
                    /\ stage' = StageAfter(stage)
    /\ UNCHANGED <<snoozeVars, wdt, napMS, adcVars, result, wokeUpWhy, iflag,
                   pending, tickDefined, transportReady, histVars>>
    /\ UNCHANGED auditVars

\* mySleep after _doPowerDown(WDTO_SLEEP_FOREVER): why = wokeUpWhy.
AfterForever ==
    /\ pc = "L234"
    /\ why' = ToInt8(wokeUpWhy)
    /\ pc' = "L237"
    /\ UNCHANGED <<snoozeVars, ms, stage, wdt, napMS, adcVars, result,
                   wokeUpWhy, iflag, pending, timer0_millis, tickDefined,
                   transportReady, histVars>>
    /\ UNCHANGED auditVars

\* What a call of tick() may return; the weak symbol is null when the
\* application defines none, and the call is then skipped (0).
TickResults == IF tickDefined THEN TickValues ELSE {0}

\* TickWakes taking only positive values as a request to wake.
MutTickWakes(r) == r > 0

\* if (tick && (why = tick())) return why;
TickWakes(r) == r # 0

\* Tick without the call of tick(): the loop only sleeps.
MutTick(r) ==
    /\ pc = "L172"
    /\ r = 0
    /\ why' = 0
    /\ pc' = "L170"
    /\ ms' = ms - napMS
    /\ stage' = StageAfter(stage)
    /\ UNCHANGED <<snoozeVars, wdt, napMS, adcVars, result, wokeUpWhy, iflag,
                   pending, timer0_millis, tickDefined, transportReady,
                   histVars>>
    /\ UNCHANGED auditVars

\* The loop after its nap: if (tick && (why = tick())) return why; ms -= 8000;
Tick(r) ==
    /\ pc = "L172"
    /\ r \in TickResults
    /\ ticks' = IF tickDefined THEN ticks + 1 ELSE ticks
    /\ tickRet' = r
    /\ sinceTick' = IF tickDefined THEN 0 ELSE sinceTick
    /\ why' = r
    /\ IF TickWakes(r)
       THEN /\ pc' = "L237"
            /\ UNCHANGED <<ms, stage>>
       ELSE /\ pc' = "L170"
            /\ ms' = ms - napMS
            /\ stage' = StageAfter(stage)
    /\ UNCHANGED <<snoozeVars, wdt, napMS, adcVars, result, wokeUpWhy, iflag,
                   pending, timer0_millis, tickDefined, transportReady, naps,
                   irqs, lateNaps, events>>
    /\ UNCHANGED auditVars

\* No statement has a nap that fits: return tick ? tick() : 0;
FinalTick(r) ==
    /\ pc = "L170"
    /\ NextStage(ms, stage) > NStages
    /\ r \in TickResults
    /\ stage' = NextStage(ms, stage)
    /\ ticks' = IF tickDefined THEN ticks + 1 ELSE ticks
    /\ tickRet' = r
    /\ sinceTick' = IF tickDefined THEN 0 ELSE sinceTick
    /\ why' = r
    /\ pc' = "L237"
    /\ UNCHANGED <<snoozeVars, ms, wdt, napMS, adcVars, result, wokeUpWhy,
                   iflag, pending, timer0_millis, tickDefined, transportReady,
                   naps, irqs, lateNaps, events>>
    /\ UNCHANGED auditVars

\* -------------------------------------------------------- specifications

Next ==
    \/ \E m \in Requests, s \in BOOLEAN : Call(m, s)
    \/ TransportChange
    \/ GuardCheck
    \/ \E d \in {ShortPoll, LongPoll} : GuardPoll(d)
    \/ GuardDone
    \/ Notify
    \/ PowerDownTransport
    \/ EnterMySleep
    \/ NapForever
    \/ Nap
    \/ WdtExpire
    \/ \E v \in FlagValues : Interrupt(v)
    \/ PendingISR
    \/ AfterNap
    \/ AfterForever
    \/ \E r \in TickValues : Tick(r)
    \/ \E r \in TickValues : FinalTick(r)
    \/ ExitMySleep
    \/ Return

Spec == Init /\ [][Next]_vars

\* A step of the program or of the watchdog, as opposed to the application's
\* next call, the transport and the external interrupts.
Step ==
    \/ GuardCheck
    \/ \E d \in {ShortPoll, LongPoll} : GuardPoll(d)
    \/ GuardDone
    \/ Notify
    \/ PowerDownTransport
    \/ EnterMySleep
    \/ NapForever
    \/ Nap
    \/ WdtExpire
    \/ PendingISR
    \/ AfterNap
    \/ AfterForever
    \/ \E r \in TickValues : Tick(r)
    \/ \E r \in TickValues : FinalTick(r)
    \/ ExitMySleep
    \/ Return

\* Spec with the CPU running on while it is awake, every call of tick()
\* returning, and the watchdog ending every nap it is armed for.
SpecLive == Init /\ [][Next]_vars /\ WF_vars(Step)

\* mySleep(ms) called once, for every ms in SchedRequests.
InitSched ==
    /\ pc = "L224"
    /\ sleepingMS \in SchedRequests
    /\ smartSleep = FALSE
    /\ sleepingTimeMS = sleepingMS
    /\ sleepEnterMS = U32(0)
    /\ sleepDeltaMS = U32(0)
    /\ ms = 0
    /\ stage = 1
    /\ why = 0
    /\ result = 0
    /\ wokeUpWhy = 0
    /\ iflag = TRUE
    /\ pending = 0
    /\ wdt = "restored"
    /\ napMS = 0
    /\ ADEN = TRUE
    /\ ADENsave = FALSE
    /\ timer0_millis = U32(0)
    /\ tickDefined \in BOOLEAN
    /\ transportReady = TRUE
    /\ NoHistory
    /\ ADEN0 = TRUE

NextSched ==
    \/ EnterMySleep
    \/ NapForever
    \/ Nap
    \/ WdtExpire
    \/ \E v \in SchedFlagValues : Interrupt(v)
    \/ PendingISR
    \/ AfterNap
    \/ AfterForever
    \/ \E r \in TickValues : Tick(r)
    \/ \E r \in TickValues : FinalTick(r)
    \/ ExitMySleep
    \/ Return

SpecSched == InitSched /\ [][NextSched]_vars

\* ----------------------------------------------------------- properties

\* A finite request has come back from myInternalSleep with 0: every nap it
\* chose ran to its deadline and no call of tick() asked to wake.
Completed == pc = "L298" /\ sleepingTimeMS > 0 /\ why = 0

\* The nominal sleep of the request, and what is left of the duration.
Slept == SumSeq(naps)
Unslept == sleepingTimeMS - Slept

\* The sums of table entries, each used at most once, from statement i on.
RECURSIVE SubsetSums(_)
SubsetSums(i) ==
    IF i > NStages THEN {0}
    ELSE SubsetSums(i + 1)
         \cup {QuantumTable[i] + x : x \in SubsetSums(i + 1)}

\* The sums of entries below 8000, each used at most once.
DistinctSums == SubsetSums(2)

\* n is a sum of table entries, entries reusable: every entry is a multiple
\* of the entry 250 or of the entry 15, so the sums are the 250 b + 15 a.
TableSum(n) ==
    \E b \in 0..(n \div QuantumTable[6]) :
        (n - QuantumTable[6] * b) % QuantumTable[NStages] = 0

\* The largest table entry that is at most m (m >= 15).
LargestEntry(m) ==
    LET fits == {QuantumTable[i] : i \in {j \in 1..NStages : QuantumTable[j] <= m}}
    IN  CHOOSE q \in fits : \A x \in fits : x <= q

\* C1 (as claimed): when an ISR has set the flag while a finite request was
\* being decomposed, the request returns a value the ISR wrote, and no nap
\* was entered with the flag already set.
C1_InterruptReturned ==
    (pc = "L298" /\ sleepingTimeMS > 0 /\ irqs # {})
        => /\ result \in {ToInt8(v) : v \in irqs}
           /\ lateNaps = 0

C3_Greedy ==
    /\ (pc = "L118" /\ wdt = "armed") => napMS = LargestEntry(ms)
    /\ (Completed /\ sleepingTimeMS = 9015) => naps = <<8000, 1000, 15>>

\* C4 (as claimed): tick() is called at most ceil(ms / 8000) times in a
\* request of ms.
C4_TickBound ==
    ticks <= (sleepingMS + QuantumTable[1] - 1) \div QuantumTable[1]

\* C5: once a call of tick() has returned non-zero the scheduler is past its
\* naps and calls of tick() (it is at mySleep's exit or at snooze's return),
\* and the request returns that value.
C5_TickWakes ==
    tickRet # 0
        => /\ pc \in {"L237", "L298"}
           /\ why = tickRet
           /\ pc = "L298" => result = tickRet

\* C5 witness: the second call of tick() returned 7 with time left, and the
\* request returns 7 after its two naps.
C5_Witness ==
    /\ pc = "L298"
    /\ tickRet = 7
    /\ result = 7
    /\ ticks = 2
    /\ naps = <<8000, 8000>>
    /\ ms > QuantumTable[1]

\* C6 (as claimed): snooze(0) returns after exactly one nap without deadline
\* and no call of tick().
C6_ForeverOnce ==
    (pc \in {"L280", "L298"} /\ sleepingMS = 0)
        => /\ naps = <<0>>
           /\ ticks = 0

\* C7 (as claimed): the flag is 0 when the first nap of a request is entered
\* and 0 when the request returns from mySleep's outcome.
C7_FlagClearAtReturn ==
    /\ (pc = "L118" /\ Len(naps) = 1) => wokeUpWhy = 0
    /\ pc = "L298" => wokeUpWhy = 0

\* C7 (amended): the flag is 0 when the first nap of a request is entered and
\* 0 right after mySleep's reset on exit, which fixes the outcome; an ISR
\* running between that reset and the return may set it again.
C7_FlagClearedOnExit ==
    [][/\ (pc # "L118" /\ pc' = "L118" /\ Len(naps') = 1) => wokeUpWhy' = 0
       /\ (pc = "L237" /\ pc' = "L298") => wokeUpWhy' = 0]_vars

\* C7 witness: a request that an ISR interrupted is about to return, the flag
\* cleared again.
C7_Witness ==
    /\ pc = "L298"
    /\ irqs # {}
    /\ result \in {ToInt8(v) : v \in irqs}
    /\ wokeUpWhy = 0

\* The guard loop has run and ended.
PastGuard ==
    /\ pc \notin {"idle", "L262", "L266"}
    /\ events # <<>>
    /\ events[1] = "guard"

\* The request is aborted: MY_SLEEP_NOT_POSSIBLE, and nothing done but the
\* guard (no heartbeat, no transportDisable, no mySleep, no nap, no tick).
Aborted ==
    /\ pc = "L280"
    /\ result = MY_SLEEP_NOT_POSSIBLE
    /\ events = <<"guard">>
    /\ naps = <<>>
    /\ ticks = 0

\* C8: when the guard loop ends with the transport still not ready and the
\* request is no longer than the reconnect timeout, the request is aborted.
C8_NotPossible ==
    (/\ PastGuard
     /\ ~transportReady
     /\ sleepingMS <= MY_SLEEP_TRANSPORT_RECONNECT_TIMEOUT_MS)
        => Aborted

\* C8 witness: snooze(9015) aborted after the transport stayed down for more
\* than the reconnect timeout.
C8_Witness ==
    /\ Aborted
    /\ sleepingMS = 9015
    /\ ~transportReady
    /\ ~Less32(sleepDeltaMS, U32(MY_SLEEP_TRANSPORT_RECONNECT_TIMEOUT_MS))

\* C9 (as claimed): whatever the duration, when the reconnect timeout has
\* elapsed with the transport still not ready, the request is aborted.
C9_DeadlineAborts ==
    (/\ PastGuard
     /\ ~transportReady
     /\ ~Less32(sleepDeltaMS, U32(MY_SLEEP_TRANSPORT_RECONNECT_TIMEOUT_MS)))
        => Aborted

\* C10: with a tick() defined, the nominal sleep since the last call of
\* tick(), or since the start of the request, never exceeds 8000 ms.
C10_TickInterval == tickDefined => sinceTick <= QuantumTable[1]

\* C10 witness: a second full 8000 ms nap has ended since the first call of
\* tick(), and tick() is about to be called again.
C10_Witness ==
    /\ tickDefined
    /\ pc = "L172"
    /\ ticks = 1
    /\ sinceTick = QuantumTable[1]

\* The request came back from the scheduler because a nap found the flag
\* set (myPowerDown's test, or mySleep's read after the nap without
\* deadline): `why` is non-zero and no call of tick() made it so.
FlagSeen == pc \in {"L237", "L298"} /\ why # 0 /\ tickRet = 0

\* C11 (as claimed): MY_WAKE_UP_BY_TIMER is returned only when no nap found
\* the flag set and no call of tick() returned non-zero, and
\* MY_SLEEP_NOT_POSSIBLE only by the guard's abort.
C11_Unambiguous ==
    /\ (pc = "L298" /\ result = MY_WAKE_UP_BY_TIMER)
           => (~FlagSeen /\ tickRet = 0)
    /\ (pc \in {"L280", "L298"} /\ result = MY_SLEEP_NOT_POSSIBLE)
           => pc = "L280"

\* C12: a flag that was already set when snooze was called has no effect on
\* the request.  When the request is about to return, its first nap was
\* entered if its duration has one (0, or at least 15 ms); and as long as
\* no ISR has run since mySleep's first reset, no nap finds the flag set,
\* and the request returns what tick() returned or, tick() having returned
\* 0 throughout, MY_WAKE_UP_BY_TIMER after all its naps.
C12_StaleFlagIgnored ==
    stale # 0
        => /\ (pc = "L140" /\ irqs = {}) => ~Interrupted
           /\ (/\ pc = "L298"
               /\ (sleepingTimeMS = 0
                      \/ sleepingTimeMS >= QuantumTable[NStages]))
                  => naps # <<>>
           /\ (pc = "L298" /\ irqs = {})
                  => /\ ~FlagSeen
                     /\ result = IF tickRet # 0 THEN tickRet
                                 ELSE MY_WAKE_UP_BY_TIMER
                     /\ tickRet = 0 => Unslept \in 0..24

\* C12 witness: snooze(9015) called with the flag set has slept all of its
\* naps and returns MY_WAKE_UP_BY_TIMER.
C12_Witness ==
    /\ stale # 0
    /\ pc = "L298"
    /\ irqs = {}
    /\ tickRet = 0
    /\ naps = <<8000, 1000, 15>>
    /\ result = MY_WAKE_UP_BY_TIMER

\* C13: an interrupt latched while the I bit is clear stays latched until
\* the sei() of a nap; the CPU being asleep with an interrupt latched, the
\* next thing that happens is the wake by an ISR, with the flag set and
\* the clock not corrected; and myPowerDown (or mySleep, after the nap
\* without deadline) then returns the flag.
C13_LatchedWakes ==
    [][/\ (pending # 0 /\ ~iflag)
           => (pending' # 0 /\ (iflag' => pc' = "L118"))
       /\ (pending # 0 /\ pc = "L118")
           => /\ pc' = AfterWake
              /\ wokeUpWhy' # 0
              /\ timer0_millis' = timer0_millis
       /\ (latched # 0 /\ pc \in {"L140", "L234"} /\ pc' # pc)
           => /\ pc' = "L237"
              /\ why' = ToInt8(wokeUpWhy)
              /\ why' # 0
              /\ timer0_millis' = timer0_millis]_vars

\* C13 witness: the ISR of a latched interrupt has ended the only nap of
\* snooze(8000), which returns the value it wrote, the clock uncorrected.
C13_Witness ==
    /\ pc = "L298"
    /\ sleepingMS = 8000
    /\ latched # 0
    /\ naps = <<8000>>
    /\ result = ToInt8(latched)
    /\ timer0_millis = clock0

\* C14 (as claimed): tick() is called only when a nap has been slept since
\* the start of the request or since the previous call of tick().
C14_TickAfterNap == [][ticks' = ticks + 1 => sinceTick > 0]_vars

\* C15 (as claimed): when a finite request ends by MY_WAKE_UP_BY_TIMER, its
\* naps all slept and no tick() asking to wake, what is left of the
\* duration is less than the smallest nap, 15 ms.
C15_RemainderBelow15 ==
    (Completed /\ result = MY_WAKE_UP_BY_TIMER)
        => Unslept \in 0..(QuantumTable[NStages] - 1)

\* The nominal sleep of the naps that ran to their deadline and were found
\* with the flag still 0: all the naps entered, but for the nap in progress
\* and the nap that found the flag set.
Credited ==
    IF pc \in {"L118", "L140"} \/ FlagSeen
    THEN Slept - naps[Len(naps)]
    ELSE Slept

\* C16: from mySleep's entry on, timer0_millis is ahead of its value at the
\* entry by exactly the nominal sleep of the naps that ran to their
\* deadline and were found with the flag still 0: the nap that finds the
\* flag set adds nothing, nor does the nap without deadline.
C16_ClockCorrection ==
    (InSched \/ pc = "L298")
        => Sub32(timer0_millis, clock0) = U32(Credited)

\* C16 witness: the second nap of a request found the flag set; the clock
\* wrapped around and is 8000 ms ahead, the first nap alone.
C16_Witness ==
    /\ pc = "L298"
    /\ FlagSeen
    /\ naps = <<8000, 1000>>
    /\ Less32(timer0_millis, clock0)
    /\ Sub32(timer0_millis, clock0) = U32(8000)

\* C17: _pre_doPowerDown has run once and _post_doPowerDown not yet while
\* the scheduler runs, the ADC off throughout; both have run once when
\* mySleep has returned, and ADEN is what it was when snooze was called; up
\* to mySleep, and when the guard aborts, neither has run and ADEN is
\* untouched.
C17_AdcOncePerRequest ==
    /\ pc \in {"L262", "L266", "L284", "L291", "L224", "L280"}
           => (adcOff = 0 /\ adcOn = 0 /\ ADEN = ADEN0)
    /\ InSched => (adcOff = 1 /\ adcOn = 0 /\ ~ADEN)
    /\ pc = "L298" => (adcOff = 1 /\ adcOn = 1 /\ ADEN = ADEN0)

\* C17 witness: a request of three naps, called with the ADC enabled, is
\* about to return with the ADC enabled again.
C17_Witness ==
    /\ pc = "L298"
    /\ Len(naps) = 3
    /\ ADEN0
    /\ ADEN
    /\ adcOff = 1
    /\ adcOn = 1

\* What snooze did after its guard, in order.
AfterGuard ==
    IF events # <<>> /\ events[1] = "guard" THEN Tail(events) ELSE events

\* C18: once a request has entered a nap or come back from mySleep, what
\* snooze did after its guard is, in this order, sendHeartbeat(), wait(),
\* transportDisable(), mySleep() when smart sleep was requested, and
\* transportDisable(), mySleep() when it was not; a request the guard
\* aborted has done none of them.
C18_NotifyDisableSleep ==
    /\ (naps # <<>> \/ pc = "L298")
           => AfterGuard = IF smartSleep
                           THEN <<"heartbeat", "wait", "disable", "mySleep">>
                           ELSE <<"disable", "mySleep">>
    /\ pc = "L280" => (AfterGuard = <<>> /\ naps = <<>>)

\* C18 witness: a smart-sleep request that waited in its guard is in its
\* first nap.
C18_Witness ==
    /\ smartSleep
    /\ pc = "L118"
    /\ Len(naps) = 1
    /\ events = <<"guard", "heartbeat", "wait", "disable", "mySleep">>

\* C19: a request with ms > 0 enters no nap without deadline; the duration
\* mySleep gets from the guard is in 1..ms, the time waited taken off; and
\* with less than 15 ms of it the request comes back without any nap.
C19_NeverForever ==
    (sleepingMS > 0 /\ pc \notin {"idle", "L262", "L266", "L280"})
        => /\ sleepingTimeMS \in 1..sleepingMS
           /\ PastGuard => sleepingTimeMS = sleepingMS - Val(sleepDeltaMS)
           /\ pc # "L233"
           /\ \A i \in 1..Len(naps) : naps[i] # 0
           /\ (pc = "L298" /\ sleepingTimeMS < QuantumTable[NStages])
                  => naps = <<>>

\* C19 witness: snooze(12003) whose guard waited 12000 ms has come back
\* from mySleep(3) without a nap.
C19_Witness ==
    /\ sleepingMS = 12003
    /\ PastGuard
    /\ Val(sleepDeltaMS) = 12000
    /\ sleepingTimeMS = 3
    /\ pc = "L298"
    /\ naps = <<>>
    /\ result = MY_WAKE_UP_BY_TIMER

\* C20 (as claimed): unless the clock stands still while the guard polls,
\* every request with ms > 0 comes to its return.
C20_Returns ==
    \/ <>[](pc = "L266" /\ ~iflag)
    \/ [](pc = "L262" /\ sleepingMS > 0 => <>(pc \in {"L280", "L298"}))

====
